---- MODULE Spec2Model ----
(***************************************************************************)
(* A model of the dating-app backend (src/main.py, src/schemas.py): the    *)
(* document store's five collections and the request handlers that read    *)
(* and write them.  Every handler is modelled twice where the claims need  *)
(* it: as one atomic step (requests served one after the other) and as a   *)
(* sequence of single store operations (requests served concurrently).     *)
(***************************************************************************)
EXTENDS Integers, Sequences, FiniteSets, TLC

VARIABLES
    otp,        \* db["otp"]: sequence of documents, in insertion order
    profile,    \* db["profile"]
    swipe,      \* db["swipe"]
    match,      \* db["match"]
    message,    \* db["message"]
    nextId,     \* the next identifier the store generates
    now,        \* the store's clock (created_at of the next insert)
    last,       \* the last request served and its response
    firstPid,   \* history: per email, the profile_id its first successful verify returned
    sw,         \* concurrent /swipe requests: per slot, position and locals
    vf          \* concurrent /auth/verify-otp requests: per slot, position and locals

vars == <<otp, profile, swipe, match, message, nextId, now, last, firstPid, sw, vf>>

----------------------------------------------------------------------------
(* Bounds of the model *)

MaxSwipes == 3

(* Caller-supplied profile identifiers of /swipe: arbitrary strings. *)
UserIds == {"u1", "u2", "u3"}

(* payload.action values tried: the two valid ones and an invalid one. *)
Actions == {"like", "pass", "maybe"}

MaxOtp == 2

(* Validated e-mail addresses, as character sequences. *)
Emails == { <<"a", "@", "x">>, <<"b", "c", "@", "x">> }

(* The codes random.randint draws (two of the 900000), and one it never draws. *)
Codes == {"111111", "222222"}
TriedCodes == Codes \cup {"000000"}

(* Requests in flight at once. *)
NumRequests == 2

Slots == 1..NumRequests

(* The two profiles whose requests race. *)
RacingIds == {"u1", "u2"}

MaxMessages == 3

MaxLimit == 2

(* list_messages' default limit. *)
DefaultLimit == 50

(* One conversation is followed until it is one message longer than the default limit. *)
LongConversation == DefaultLimit + 1

MatchIds == {"m1", "m2"}

(* Partial profile payloads (the fields the request sets): none, one, two. *)
Payloads == << <<>>, [age |-> 30], [name |-> <<"z">>, bio |-> <<>>] >>

----------------------------------------------------------------------------
(* Values *)

(* Python's None; also the empty query result. *)
None == <<>>

(* str(ObjectId): the identifier rendered as the string handlers return. *)
Str(oid) == <<"oid", oid>>

(* ObjectId(s): the string parsed back to the store's identifier. *)
ObjectId(s) == s[2]

Min(S) == CHOOSE x \in S : \A y \in S : x <= y

----------------------------------------------------------------------------
(* The store *)

(* create_document(collection, data): the document gets a generated _id   *)
(* and the insertion timestamps, and is appended to the collection.       *)
CreateDocument(coll, data, id, t) ==
    Append(coll, data @@ [_id |-> id, created_at |-> t, updated_at |-> t])

(* A query filter {field: value, ...}: the document holds every field named, *)
(* with the value given.                                                   *)
Matches(d, filter) ==
    \A f \in DOMAIN filter : f \in DOMAIN d /\ d[f] = filter[f]

(* {"$or": [filter, ...]} *)
MatchesOr(d, filters) ==
    \E k \in 1..Len(filters) : Matches(d, filters[k])

(* The index of the first of the documents hit, in the store's natural      *)
(* order; 0 (no document) when there is none.                               *)
First(hits) == IF hits = {} THEN 0 ELSE Min(hits)

(* collection.find_one(filter) *)
FindOne(coll, filter) == First({i \in 1..Len(coll) : Matches(coll[i], filter)})

(* collection.find_one({"$or": filters}) *)
FindOneOr(coll, filters) == First({i \in 1..Len(coll) : MatchesOr(coll[i], filters)})

(* collection.find(filter): the passing documents, in natural order. *)
Find(coll, filter) == SelectSeq(coll, LAMBDA d : Matches(d, filter))

RECURSIVE InsertAsc(_, _)
InsertAsc(d, sorted) ==
    IF sorted = <<>> THEN <<d>>
    ELSE IF d.created_at <= Head(sorted).created_at THEN <<d>> \o sorted
    ELSE <<Head(sorted)>> \o InsertAsc(d, Tail(sorted))

(* A mutant of SortCreatedDesc: .sort("created_at", 1), oldest first. *)
RECURSIVE SortCreatedAsc(_)
SortCreatedAsc(docs) ==
    IF docs = <<>> THEN <<>>
    ELSE InsertAsc(Head(docs), SortCreatedAsc(Tail(docs)))

RECURSIVE InsertDesc(_, _)
InsertDesc(d, sorted) ==
    IF sorted = <<>> THEN <<d>>
    ELSE IF d.created_at >= Head(sorted).created_at THEN <<d>> \o sorted
    ELSE <<Head(sorted)>> \o InsertDesc(d, Tail(sorted))

(* cursor.sort("created_at", -1): newest first. *)
RECURSIVE SortCreatedDesc(_)
SortCreatedDesc(docs) ==
    IF docs = <<>> THEN <<>>
    ELSE InsertDesc(Head(docs), SortCreatedDesc(Tail(docs)))

(* cursor.limit(n), n >= 1: the first n documents of the cursor. *)
Limit(docs, n) == SubSeq(docs, 1, IF n < Len(docs) THEN n ELSE Len(docs))

(* datetime.isoformat() *)
IsoFormat(t) == <<"iso", t>>

(* to_doc(d): _id becomes the string id, the timestamps ISO-8601 strings. *)
ToDoc(d) ==
    [f \in (DOMAIN d \ {"_id"}) \cup {"id"} |->
        IF f = "id" THEN Str(d._id)
        ELSE IF f \in {"created_at", "updated_at"} THEN IsoFormat(d[f])
        ELSE d[f]]

----------------------------------------------------------------------------
(* POST /auth/request-otp, POST /auth/verify-otp *)

(* request_otp: a fresh 6-digit code is stored and returned. *)
RequestOtp(email, code) ==
    /\ Len(otp) < MaxOtp
    /\ otp' = CreateDocument(otp, [email |-> email, code |-> code], nextId, now)
    /\ nextId' = nextId + 1
    /\ now' = now + 1
    /\ last' = [op |-> "request", email |-> email, status |-> 200, sent |-> TRUE, code |-> code]
    /\ UNCHANGED <<profile, swipe, match, message, firstPid, sw, vf>>

(* A mutant of OtpCursor: the sort direction reversed. *)
OtpCursorOldest(otps, email) ==
    Limit(SortCreatedAsc(Find(otps, [email |-> email])), 1)

(* db["otp"].find({"email": email}).sort("created_at", -1).limit(1) *)
OtpCursor(otps, email) ==
    Limit(SortCreatedDesc(Find(otps, [email |-> email])), 1)

(* "not doc or doc.get('code') != payload.code" *)
InvalidCode(docs, code) == docs = <<>> \/ docs[1].code # code

(* A mutant of ProfileByEmail: the lookup is keyed on the wrong field. *)
ProfileByName(profiles, email) ==
    FindOne(profiles, [name |-> email])

(* db["profile"].find_one({"email": email}) *)
ProfileByEmail(profiles, email) ==
    FindOne(profiles, [email |-> email])

(* email.split("@")[0]: the text before the first "@" (all of it without one). *)
LocalPart(email) ==
    LET ats == {i \in 1..Len(email) : email[i] = "@"}
    IN  IF ats = {} THEN email ELSE SubSeq(email, 1, Min(ats) - 1)

VerifyResponse(email, code, status, profile_id) ==
    [op |-> "verify", email |-> email, code |-> code, status |-> status,
     detail |-> IF status = 400 THEN "Invalid code" ELSE "", profile_id |-> profile_id]

(* The whole handler, served without any other request in between. *)
VerifyOtp(email, code) ==
    /\ UNCHANGED <<otp, swipe, match, message, sw, vf>>
    /\ IF InvalidCode(OtpCursor(otp, email), code)
       THEN /\ last' = VerifyResponse(email, code, 400, None)
            /\ UNCHANGED <<profile, nextId, now, firstPid>>
       ELSE LET existing == ProfileByEmail(profile, email)
                pid == IF existing = 0 THEN Str(nextId) ELSE Str(profile[existing]._id)
            IN  /\ IF existing = 0
                   THEN /\ profile' = CreateDocument(profile,
                                          [email |-> email, name |-> LocalPart(email)],
                                          nextId, now)
                        /\ nextId' = nextId + 1
                        /\ now' = now + 1
                   ELSE UNCHANGED <<profile, nextId, now>>
                /\ last' = VerifyResponse(email, code, 200, pid)
                /\ firstPid' = IF firstPid[email] = None
                               THEN [firstPid EXCEPT ![email] = pid] ELSE firstPid

----------------------------------------------------------------------------
(* PUT /profiles/me *)

(* A mutant of SetFields: the document is replaced by the payload. *)
ReplaceFields(doc, update) == update @@ [_id |-> doc._id]

(* {"$set": update}: the named fields are set, the others kept. *)
SetFields(doc, update) == update @@ doc

(* db["profile"].update_one({"_id": oid}, {"$set": update}) *)
UpdateOne(profiles, oid, update) ==
    LET i == FindOne(profiles, [_id |-> oid])
    IN  IF i = 0 THEN profiles
        ELSE [profiles EXCEPT ![i] = SetFields(profiles[i], update)]

UpdateResponse(profile_id, payload, body) ==
    [op |-> "update", profile_id |-> profile_id, payload |-> payload,
     status |-> 200, body |-> body]

(* update_me; payload holds the fields the request set (exclude_unset). *)
UpdateMe(profile_id, payload) ==
    /\ UNCHANGED <<otp, swipe, match, message, nextId, now, firstPid, sw, vf>>
    /\ IF DOMAIN payload = {}
       THEN /\ last' = UpdateResponse(profile_id, payload, [updated |-> FALSE])
            /\ UNCHANGED profile
       ELSE LET profiles1 == UpdateOne(profile, ObjectId(profile_id), payload)
                doc == FindOne(profiles1, [_id |-> ObjectId(profile_id)])
            IN  /\ profile' = profiles1
                /\ last' = UpdateResponse(profile_id, payload,
                                          IF doc = 0 THEN None ELSE ToDoc(profiles1[doc]))

----------------------------------------------------------------------------
(* GET /messages, POST /messages *)

(* A mutant of Reversed: the list is returned as the cursor yields it. *)
NotReversed(docs) == docs

(* docs[::-1] *)
Reversed(docs) == [i \in 1..Len(docs) |-> docs[Len(docs) + 1 - i]]

(* [to_doc(m) for m in cursor] *)
ToDocs(docs) == [i \in 1..Len(docs) |-> ToDoc(docs[i])]

(* list_messages *)
ListMessages(match_id, limit) ==
    /\ LET cursor == Limit(SortCreatedDesc(Find(message, [match_id |-> match_id])),
                           limit)
       IN  last' = [op |-> "list", match_id |-> match_id, limit |-> limit,
                    status |-> 200, body |-> Reversed(ToDocs(cursor))]
    /\ UNCHANGED <<otp, profile, swipe, match, message, nextId, now, firstPid, sw, vf>>

(* send_message *)
SendMessage(match_id, sender_id, text) ==
    /\ \/ Len(message) < MaxMessages
       \/ /\ Len(message) < LongConversation
          /\ \A i \in 1..Len(message) : message[i].match_id = match_id
    /\ LET messages1 == CreateDocument(message,
                            [match_id |-> match_id, sender_id |-> sender_id, text |-> text],
                            nextId, now)
           doc == FindOne(messages1, [_id |-> ObjectId(Str(nextId))])
       IN  /\ message' = messages1
           /\ last' = [op |-> "send", match_id |-> match_id, status |-> 200,
                       body |-> ToDoc(messages1[doc])]
    /\ nextId' = nextId + 1
    /\ now' = now + 1
    /\ UNCHANGED <<otp, profile, swipe, match, firstPid, sw, vf>>

----------------------------------------------------------------------------
(* POST /swipe *)

ValidAction(action) == action \in {"like", "pass"}

(* A mutant of LikedMe: the query's two sides swapped, so that it finds the *)
(* caller's swipes on the target.                                          *)
LikedMeSwapped(swipes, profile_id, target_id) ==
    FindOne(swipes, [user_id |-> profile_id, target_id |-> target_id, action |-> "like"])

(* A mutant of LikedMe: target_id is compared with the target, not the caller. *)
LikedMeWrongTarget(swipes, profile_id, target_id) ==
    FindOne(swipes, [user_id |-> target_id, target_id |-> target_id, action |-> "like"])

(* "Check if target already liked me" *)
LikedMe(swipes, profile_id, target_id) ==
    FindOne(swipes, [user_id |-> target_id, target_id |-> profile_id, action |-> "like"])

(* A mutant of ExistingMatch: only one ordering of the pair is looked up. *)
ExistingMatchOneSided(matches, profile_id, target_id) ==
    FindOneOr(matches, << [user_a |-> profile_id, user_b |-> target_id] >>)

(* The $or query: a match stored with either side as user_a. *)
ExistingMatch(matches, profile_id, target_id) ==
    FindOneOr(matches, << [user_a |-> profile_id, user_b |-> target_id],
                          [user_a |-> target_id, user_b |-> profile_id] >>)

(* A mutant of NoMatchYet: the existence check is dropped. *)
NoMatchYetUnchecked(existing) == TRUE

(* "if not existing" *)
NoMatchYet(existing) == existing = 0

SwipeDoc(profile_id, target_id, action) ==
    [user_id |-> profile_id, target_id |-> target_id, action |-> action]

MatchDoc(profile_id, target_id) ==
    [user_a |-> profile_id, user_b |-> target_id]

SwipeResponse(profile_id, target_id, action, status, is_match, match_id) ==
    [op |-> "swipe", profile_id |-> profile_id, target_id |-> target_id,
     action |-> action, status |-> status, match |-> is_match, match_id |-> match_id]

(* The whole handler, served without any other request in between. *)
Swipe(profile_id, target_id, action) ==
    /\ Len(swipe) < MaxSwipes
    /\ UNCHANGED <<otp, profile, message, firstPid, sw, vf>>
    /\ IF ~ValidAction(action)
       THEN /\ last' = SwipeResponse(profile_id, target_id, action, 400, FALSE, None)
            /\ UNCHANGED <<swipe, match, nextId, now>>
       ELSE LET swipes1  == CreateDocument(swipe, SwipeDoc(profile_id, target_id, action),
                                           nextId, now)
                liked_me == IF action = "like"
                            THEN LikedMe(swipes1, profile_id, target_id) ELSE 0
                existing == ExistingMatch(match, profile_id, target_id)
            IN  /\ swipe' = swipes1
                /\ IF liked_me # 0 /\ NoMatchYet(existing)
                   THEN /\ match' = CreateDocument(match, MatchDoc(profile_id, target_id),
                                                   nextId + 1, now + 1)
                        /\ nextId' = nextId + 2
                        /\ now' = now + 2
                        /\ last' = SwipeResponse(profile_id, target_id, action, 200,
                                                 TRUE, Str(nextId + 1))
                   ELSE /\ UNCHANGED match
                        /\ nextId' = nextId + 1
                        /\ now' = now + 1
                        /\ last' = SwipeResponse(profile_id, target_id, action, 200,
                                                 liked_me # 0,
                                                 IF liked_me # 0
                                                 THEN Str(match[existing]._id) ELSE None)

----------------------------------------------------------------------------
(* POST /swipe, one store operation per step *)

IdleSwipe ==
    [pc |-> "idle", profile_id |-> "", target_id |-> "", action |-> "", status |-> 0,
     liked_me |-> 0, existing |-> 0, is_match |-> FALSE, match_id |-> None]

(* Validation, then the first store operation: the swipe is inserted. *)
SwipeBegin(s, profile_id, target_id, action) ==
    /\ sw[s].pc = "idle"
    /\ IF ~ValidAction(action)
       THEN /\ sw' = [sw EXCEPT ![s] = [IdleSwipe EXCEPT
                         !.pc = "done", !.profile_id = profile_id,
                         !.target_id = target_id, !.action = action, !.status = 400]]
            /\ UNCHANGED <<swipe, nextId, now>>
       ELSE /\ swipe' = CreateDocument(swipe, SwipeDoc(profile_id, target_id, action),
                                       nextId, now)
            /\ nextId' = nextId + 1
            /\ now' = now + 1
            /\ sw' = [sw EXCEPT ![s] = [IdleSwipe EXCEPT
                         !.pc = IF action = "like" THEN "lookup_like" ELSE "done",
                         !.profile_id = profile_id, !.target_id = target_id,
                         !.action = action, !.status = 200]]
    /\ UNCHANGED <<otp, profile, match, message, last, firstPid, vf>>

(* liked_me = db["swipe"].find_one(...) *)
SwipeLookupLike(s) ==
    /\ sw[s].pc = "lookup_like"
    /\ LET liked_me == LikedMe(swipe, sw[s].profile_id, sw[s].target_id)
       IN  sw' = [sw EXCEPT ![s].liked_me = liked_me,
                            ![s].pc = IF liked_me # 0 THEN "find_match" ELSE "done"]
    /\ UNCHANGED <<otp, profile, swipe, match, message, nextId, now, last, firstPid, vf>>

(* existing = db["match"].find_one(...); an existing match is reused. *)
SwipeFindMatch(s) ==
    /\ sw[s].pc = "find_match"
    /\ LET existing == ExistingMatch(match, sw[s].profile_id, sw[s].target_id)
       IN  sw' = IF NoMatchYet(existing)
                 THEN [sw EXCEPT ![s].existing = existing, ![s].pc = "insert_match"]
                 ELSE [sw EXCEPT ![s].existing = existing, ![s].pc = "done",
                                 ![s].is_match = TRUE,
                                 ![s].match_id = Str(match[existing]._id)]
    /\ UNCHANGED <<otp, profile, swipe, match, message, nextId, now, last, firstPid, vf>>

(* match_id = create_document("match", ...) *)
SwipeInsertMatch(s) ==
    /\ sw[s].pc = "insert_match"
    /\ match' = CreateDocument(match, MatchDoc(sw[s].profile_id, sw[s].target_id),
                               nextId, now)
    /\ nextId' = nextId + 1
    /\ now' = now + 1
    /\ sw' = [sw EXCEPT ![s].pc = "done", ![s].is_match = TRUE,
                        ![s].match_id = Str(nextId)]
    /\ UNCHANGED <<otp, profile, swipe, message, last, firstPid, vf>>

----------------------------------------------------------------------------
(* POST /auth/verify-otp, one store operation per step *)

IdleVerify ==
    [pc |-> "idle", email |-> <<>>, code |-> "", status |-> 0, existing |-> 0,
     profile_id |-> None]

(* The newest OTP record is fetched and the code compared. *)
VerifyBegin(s, email, code) ==
    /\ vf[s].pc = "idle"
    /\ vf' = [vf EXCEPT ![s] =
                 IF InvalidCode(OtpCursor(otp, email), code)
                 THEN [IdleVerify EXCEPT !.pc = "done", !.email = email,
                                         !.code = code, !.status = 400]
                 ELSE [IdleVerify EXCEPT !.pc = "find_profile", !.email = email,
                                         !.code = code]]
    /\ UNCHANGED <<otp, profile, swipe, match, message, nextId, now, last, firstPid, sw>>

(* existing = db["profile"].find_one({"email": email}) *)
VerifyFindProfile(s) ==
    /\ vf[s].pc = "find_profile"
    /\ LET existing == ProfileByEmail(profile, vf[s].email)
       IN  vf' = IF existing = 0
                 THEN [vf EXCEPT ![s].pc = "insert_profile"]
                 ELSE [vf EXCEPT ![s].existing = existing, ![s].pc = "done",
                                 ![s].status = 200,
                                 ![s].profile_id = Str(profile[existing]._id)]
    /\ UNCHANGED <<otp, profile, swipe, match, message, nextId, now, last, firstPid, sw>>

(* pid = create_document("profile", ...) *)
VerifyInsertProfile(s) ==
    /\ vf[s].pc = "insert_profile"
    /\ profile' = CreateDocument(profile,
                      [email |-> vf[s].email, name |-> LocalPart(vf[s].email)],
                      nextId, now)
    /\ nextId' = nextId + 1
    /\ now' = now + 1
    /\ vf' = [vf EXCEPT ![s].pc = "done", ![s].status = 200,
                        ![s].profile_id = Str(nextId)]
    /\ UNCHANGED <<otp, swipe, match, message, last, firstPid, sw>>

----------------------------------------------------------------------------
(* Initial state: the store right after deployment, nothing served yet. *)

Init ==
    /\ otp = <<>>
    /\ profile = <<>>
    /\ swipe = <<>>
    /\ match = <<>>
    /\ message = <<>>
    /\ nextId = 1
    /\ now = 1
    /\ last = [op |-> "none"]
    /\ firstPid = [e \in Emails |-> None]
    /\ sw = [s \in Slots |-> IdleSwipe]
    /\ vf = [s \in Slots |-> IdleVerify]

(* /swipe requests served one at a time. *)
NextSwipe ==
    \E profile_id \in UserIds, target_id \in UserIds, action \in Actions :
        Swipe(profile_id, target_id, action)

SpecSwipe == Init /\ [][NextSwipe]_vars

(* The profile ids a caller tries: those handed out, and one that names no profile. *)
TriedProfileIds == {Str(profile[i]._id) : i \in 1..Len(profile)} \cup {Str(0)}

(* Login and profile requests served one at a time. *)
NextAuth ==
    \/ \E email \in Emails, code \in Codes : RequestOtp(email, code)
    \/ \E email \in Emails, code \in TriedCodes : VerifyOtp(email, code)
    \/ \E profile_id \in TriedProfileIds, k \in 1..Len(Payloads) :
           UpdateMe(profile_id, Payloads[k])

SpecAuth == Init /\ [][NextAuth]_vars

(* The limits a caller tries: small ones and the default. *)
TriedLimits == (1..MaxLimit) \cup {DefaultLimit}

(* Messaging requests served one at a time. *)
NextMsg ==
    \/ \E match_id \in MatchIds : SendMessage(match_id, "u1", "hi")
    \/ \E match_id \in MatchIds, limit \in TriedLimits : ListMessages(match_id, limit)

SpecMsg == Init /\ [][NextMsg]_vars

(* /swipe requests in flight together, their store operations interleaved. *)
NextSwipeRace ==
    \/ \E s \in Slots, profile_id \in RacingIds, target_id \in RacingIds, action \in Actions :
           SwipeBegin(s, profile_id, target_id, action)
    \/ \E s \in Slots : SwipeLookupLike(s)
    \/ \E s \in Slots : SwipeFindMatch(s)
    \/ \E s \in Slots : SwipeInsertMatch(s)

SpecSwipeRace == Init /\ [][NextSwipeRace]_vars

(* Codes are requested, and verify requests are in flight together. *)
NextVerifyRace ==
    \/ \E email \in Emails, code \in Codes : RequestOtp(email, code)
    \/ \E s \in Slots, email \in Emails, code \in TriedCodes : VerifyBegin(s, email, code)
    \/ \E s \in Slots : VerifyFindProfile(s)
    \/ \E s \in Slots : VerifyInsertProfile(s)

SpecVerifyRace == Init /\ [][NextVerifyRace]_vars

----------------------------------------------------------------------------
(* Claims about /swipe, requests served one at a time *)

(* The swipes recorded between a and b, in either direction. *)
SwipesBetween(swipes, a, b) ==
    {i \in 1..Len(swipes) : \/ (swipes[i].user_id = a /\ swipes[i].target_id = b)
                            \/ (swipes[i].user_id = b /\ swipes[i].target_id = a)}

(* The Match records of the unordered pair {a, b}. *)
MatchesOf(matches, a, b) ==
    {i \in 1..Len(matches) : \/ (matches[i].user_a = a /\ matches[i].user_b = b)
                             \/ (matches[i].user_a = b /\ matches[i].user_b = a)}

(* The step serves a valid /swipe request (the response is primed). *)
SwipeServed == last'.op = "swipe" /\ last'.status = 200 /\ swipe' # swipe

(* C1: when a like from A to B, the first swipe between distinct A and B,   *)
(* is followed by a like from B to A, the first answers match=false, the    *)
(* second match=true with a match id, and exactly one Match record then     *)
(* exists for the pair {A,B}; A and B range over all ids, so both orders    *)
(* are covered.                                                            *)
C1_MutualLikeMatchesOnce ==
    [][ ( /\ SwipeServed
          /\ last.op = "swipe" /\ last.status = 200
          /\ last.action = "like" /\ last'.action = "like"
          /\ last.profile_id # last.target_id
          /\ last'.profile_id = last.target_id /\ last'.target_id = last.profile_id
          /\ Cardinality(SwipesBetween(swipe, last.profile_id, last.target_id)) = 1 )
        => ( /\ last.match = FALSE /\ last.match_id = None
             /\ last'.match = TRUE /\ last'.match_id # None
             /\ Cardinality(MatchesOf(match', last.profile_id, last.target_id)) = 1
             /\ \E i \in MatchesOf(match', last.profile_id, last.target_id) :
                    Str(match'[i]._id) = last'.match_id ) ]_vars

(* C1's case has happened: B's like answered A's first like with a match. *)
C1_Witness ==
    /\ last.op = "swipe" /\ last.match = TRUE
    /\ last.profile_id # last.target_id
    /\ Len(swipe) = 2
    /\ swipe[1].user_id = last.target_id /\ swipe[1].target_id = last.profile_id
    /\ swipe[1].action = "like"
    /\ Len(match) = 1

(* C2: with requests served one at a time, the match collection never holds *)
(* two Match records for one unordered pair (whichever side is user_a), and *)
(* a swipe answered match=true for a pair that already had a Match inserts  *)
(* nothing and returns that record's id.                                   *)
C2_OneMatchPerPair ==
    [][ /\ \A a \in UserIds, b \in UserIds :
               Cardinality(MatchesOf(match', a, b)) <= 1
        /\ ( /\ SwipeServed
             /\ last'.match = TRUE
             /\ MatchesOf(match, last'.profile_id, last'.target_id) # {} )
           => ( /\ match' = match
                /\ \A i \in MatchesOf(match, last'.profile_id, last'.target_id) :
                       last'.match_id = Str(match[i]._id) ) ]_vars

(* C2's case has happened: a third swipe found the pair's Match and reused it. *)
C2_Witness ==
    /\ last.op = "swipe" /\ last.match = TRUE
    /\ Len(swipe) = 3 /\ Len(match) = 1
    /\ match[1]._id < swipe[3]._id
    /\ last.match_id = Str(match[1]._id)
    /\ match[1].user_a = last.target_id /\ match[1].user_b = last.profile_id
    /\ last.profile_id # last.target_id

(* C3: a swipe answers match=true or inserts a Match only if its action is  *)
(* like and a like from target to caller was recorded before the request    *)
(* wrote its own swipe (equal ids included); a pass answers match=false and *)
(* leaves the match collection unchanged.                                  *)
C3_MatchOnlyOnPriorLike ==
    [][ SwipeServed
        => /\ (last'.match = TRUE \/ match' # match)
              => /\ last'.action = "like"
                 /\ \E i \in 1..Len(swipe) :
                        /\ swipe[i].user_id = last'.target_id
                        /\ swipe[i].target_id = last'.profile_id
                        /\ swipe[i].action = "like"
           /\ last'.action = "pass" => (last'.match = FALSE /\ match' = match) ]_vars

----------------------------------------------------------------------------
(* Claims about login and profiles, requests served one at a time *)

(* The OTP records of an email, by position in the collection (insertion order). *)
OtpsOf(email) == {i \in 1..Len(otp) : otp[i].email = email}

Max(S) == CHOOSE x \in S : \A y \in S : y <= x

(* C4: a verify succeeds exactly when the email has an OTP record and the   *)
(* code is that of the record inserted last for the email; otherwise it is  *)
(* rejected with 400 "Invalid code", also when the code is an older         *)
(* record's or another email's.                                            *)
C4_VerifyChecksNewestOnly ==
    last.op = "verify"
    => /\ last.status = 200
          <=> /\ OtpsOf(last.email) # {}
              /\ otp[Max(OtpsOf(last.email))].code = last.code
       /\ last.status # 200 => (last.status = 400 /\ last.detail = "Invalid code")

(* C4's case has happened: an older record's code was rejected. *)
C4_Witness ==
    /\ last.op = "verify" /\ last.status = 400
    /\ \E i \in OtpsOf(last.email), j \in OtpsOf(last.email) :
           i < j /\ otp[i].code = last.code /\ otp[j].code # last.code

(* The profiles of an email. *)
ProfilesOf(profiles, email) == {i \in 1..Len(profiles) : profiles[i].email = email}

(* name is the text of email before its "@". *)
IsTextBeforeAt(name, email) ==
    /\ Len(name) < Len(email)
    /\ SubSeq(email, 1, Len(name)) = name
    /\ email[Len(name) + 1] = "@"
    /\ \A i \in 1..Len(name) : name[i] # "@"

(* C5: a failed verify inserts no profile; the first successful verify of   *)
(* an email without a profile inserts exactly one, with that email and the  *)
(* text before "@" as name; every later successful verify of the email      *)
(* inserts none and returns the profile_id the first one returned.          *)
C5_VerifyCreatesProfileOnce ==
    [][ last'.op = "verify"
        => /\ last'.status # 200 => profile' = profile
           /\ (last'.status = 200 /\ ProfilesOf(profile, last'.email) = {})
              => /\ Len(profile') = Len(profile) + 1
                 /\ SubSeq(profile', 1, Len(profile)) = profile
                 /\ profile'[Len(profile')].email = last'.email
                 /\ IsTextBeforeAt(profile'[Len(profile')].name, last'.email)
                 /\ last'.profile_id = Str(profile'[Len(profile')]._id)
                 /\ firstPid[last'.email] = None
           /\ (last'.status = 200 /\ firstPid[last'.email] # None)
              => /\ profile' = profile
                 /\ last'.profile_id = firstPid[last'.email] ]_vars

(* C5's case has happened: a later verify, with a newer code, returned the  *)
(* profile_id of the profile the first verify had created.                  *)
C5_Witness ==
    /\ last.op = "verify" /\ last.status = 200
    /\ Cardinality(ProfilesOf(profile, last.email)) = 1
    /\ \E i \in OtpsOf(last.email), j \in OtpsOf(last.email), k \in 1..Len(profile) :
           /\ i < j
           /\ otp[i].code # otp[j].code
           /\ profile[k].email = last.email
           /\ profile[k]._id < otp[j]._id
           /\ last.profile_id = Str(profile[k]._id)
           /\ last.profile_id = firstPid[last.email]

(* C6: an update sets, on the profile with the given id, exactly the fields *)
(* of the payload and keeps its other fields, every other profile and every *)
(* other collection; with no field it writes nothing and answers            *)
(* {updated: false}.                                                       *)
C6_UpdateSetsOnlyGivenFields ==
    [][ last'.op = "update"
        => /\ UNCHANGED <<otp, swipe, match, message>>
           /\ Len(profile') = Len(profile)
           /\ \A i \in 1..Len(profile) :
                  IF profile[i]._id = ObjectId(last'.profile_id)
                  THEN /\ DOMAIN profile'[i] = DOMAIN profile[i] \cup DOMAIN last'.payload
                       /\ \A f \in DOMAIN last'.payload :
                              profile'[i][f] = last'.payload[f]
                       /\ \A f \in DOMAIN profile[i] \ DOMAIN last'.payload :
                              profile'[i][f] = profile[i][f]
                  ELSE profile'[i] = profile[i]
           /\ DOMAIN last'.payload = {}
              => /\ profile' = profile
                 /\ last'.status = 200
                 /\ last'.body = [updated |-> FALSE] ]_vars

(* C6's case has happened: {age: 30} was set on one of two profiles, whose  *)
(* name is still the one it was created with.                               *)
C6_Witness ==
    /\ last.op = "update"
    /\ DOMAIN last.payload = {"age"}
    /\ Len(profile) = 2
    /\ \E i \in 1..2 :
           /\ profile[i]._id = ObjectId(last.profile_id)
           /\ "age" \in DOMAIN profile[i] /\ profile[i].age = 30
           /\ profile[i].name = LocalPart(profile[i].email)
           /\ "age" \notin DOMAIN profile[3 - i]

----------------------------------------------------------------------------
(* Claims about messaging *)

(* The messages of a match, by position in the collection. *)
MessagesOf(match_id) == {i \in 1..Len(message) : message[i].match_id = match_id}

(* The stored message a returned document renders. *)
SourceOf(doc) == CHOOSE i \in 1..Len(message) : Str(message[i]._id) = doc.id

(* C7: a listing with limit >= 1 of a match holding n messages returns      *)
(* min(limit, n) documents, each a message of that match, in ascending      *)
(* creation time, and every message of the match left out is older than     *)
(* all returned; so 51 messages listed with the default limit give the 50   *)
(* newest, and no message gives the empty list with status 200.             *)
C7_ListNewestAscending ==
    last.op = "list"
    => LET r == last.body
           M == MessagesOf(last.match_id)
           n == Cardinality(M)
       IN  /\ last.status = 200
           /\ Len(r) = IF last.limit < n THEN last.limit ELSE n
           /\ \A k \in 1..Len(r) :
                  /\ \E i \in M : Str(message[i]._id) = r[k].id
                  /\ r[k].match_id = last.match_id
                  /\ r[k].text = message[SourceOf(r[k])].text
                  /\ r[k].created_at = IsoFormat(message[SourceOf(r[k])].created_at)
           /\ \A k \in 1..Len(r), l \in 1..Len(r) :
                  k < l => message[SourceOf(r[k])].created_at
                               < message[SourceOf(r[l])].created_at
           /\ \A i \in M :
                  (\A k \in 1..Len(r) : SourceOf(r[k]) # i)
                  => \A k \in 1..Len(r) :
                         message[i].created_at < message[SourceOf(r[k])].created_at

(* C7's case has happened: 51 messages, listed with the default limit, gave *)
(* the 50 newest, the second message first.                                 *)
C7_Witness ==
    /\ last.op = "list" /\ last.limit = DefaultLimit
    /\ Cardinality(MessagesOf(last.match_id)) = DefaultLimit + 1
    /\ Len(last.body) = DefaultLimit
    /\ last.body[1].id = Str(message[2]._id)
    /\ last.body[DefaultLimit].id = Str(message[DefaultLimit + 1]._id)

----------------------------------------------------------------------------
(* Claims about requests in flight together *)

(* Slots s and t hold likes of two distinct profiles for each other. *)
MutualLikes(s, t) ==
    /\ s # t
    /\ sw[s].status = 200 /\ sw[t].status = 200
    /\ sw[s].action = "like" /\ sw[t].action = "like"
    /\ sw[s].profile_id # sw[s].target_id
    /\ sw[t].profile_id = sw[s].target_id
    /\ sw[t].target_id = sw[s].profile_id

(* The request of slot s has inserted Match record i. *)
InsertedBy(s, i) ==
    /\ sw[s].pc = "done" /\ sw[s].is_match
    /\ sw[s].match_id = Str(match[i]._id)
    /\ match[i].user_a = sw[s].profile_id /\ match[i].user_b = sw[s].target_id
    /\ sw[s].liked_me # 0
    /\ sw[s].existing = 0

(* C8: every Match record was inserted by a request that had found the      *)
(* other side's like and no Match of the pair; two records of one pair      *)
(* {A,B} therefore come from two such requests, and the state in which      *)
(* they do is reachable (C8_Witness).                                       *)
C8_DuplicatesComeFromTheRace ==
    \A i \in 1..Len(match) :
        /\ \E s \in Slots : InsertedBy(s, i)
        /\ \A j \in 1..Len(match) :
               (i # j /\ j \in MatchesOf(match, match[i].user_a, match[i].user_b))
               => \E s \in Slots, t \in Slots :
                      /\ s # t /\ InsertedBy(s, i) /\ InsertedBy(t, j)

(* C8's case has happened: A's like of B and B's like of A each found the   *)
(* other's like and no Match, and both inserted one.                        *)
C8_Witness ==
    \E s \in Slots, t \in Slots :
        /\ MutualLikes(s, t)
        /\ sw[s].pc = "done" /\ sw[t].pc = "done"
        /\ sw[s].liked_me # 0 /\ sw[t].liked_me # 0
        /\ sw[s].existing = 0 /\ sw[t].existing = 0
        /\ sw[s].is_match /\ sw[t].is_match
        /\ sw[s].match_id # sw[t].match_id
        /\ Cardinality(MatchesOf(match, sw[s].profile_id, sw[s].target_id)) = 2

(* C9: once two concurrent mutual likes of distinct profiles have both      *)
(* completed, at least one was answered match=true and at least one Match   *)
(* record exists for the pair.                                              *)
C9_MutualLikeNeverLost ==
    \A s \in Slots, t \in Slots :
        (MutualLikes(s, t) /\ sw[s].pc = "done" /\ sw[t].pc = "done")
        => /\ sw[s].is_match \/ sw[t].is_match
           /\ MatchesOf(match, sw[s].profile_id, sw[s].target_id) # {}

(* C9's case has happened: both likes were written before either lookup,    *)
(* so both requests were answered match=true, with the same Match record.   *)
C9_Witness ==
    \E s \in Slots, t \in Slots :
        /\ MutualLikes(s, t)
        /\ sw[s].pc = "done" /\ sw[t].pc = "done"
        /\ sw[s].is_match /\ sw[t].is_match
        /\ sw[s].match_id = sw[t].match_id
        /\ Len(match) = 1

(* C10: the profile collection holds at most one Profile per email, also    *)
(* when verify requests for one email interleave between the profile        *)
(* lookup and the profile insert.                                           *)
C10_OneProfilePerEmail ==
    \A e \in Emails : Cardinality(ProfilesOf(profile, e)) <= 1

====
